---------------------------- MODULE Spec2Model ----------------------------
(***************************************************************************)
(* Model of export.py: the volume assembler and whole-series intensity    *)
(* normaliser (bioformats_to_ndarray_zstack_timeseries), the voxel-grid    *)
(* writer (_save_vtk_image_to_disk), the configuration reader              *)
(* (read_config) and the export driver (the __main__ block).               *)
(***************************************************************************)
EXTENDS Integers, Sequences, FiniteSets

VARIABLES
    tab,       \* memo of RescaleU8 over the possible ranges (never changes)
    img,       \* the OMEImageFile: geometry and pixel content of the series
    frames,    \* argument frames of the assembler call
    roi,       \* argument roi of the assembler call (NoRoi for None)
    channel,   \* argument channel of the assembler call
    crop,      \* the locals w, h, x0, y0, x1, y1
    image,     \* the uint16 array allocated on line 43
    img_z,     \* the per-frame uint16 array allocated on line 45
    i, j,      \* positions of the two enumerate loops
    pc,        \* position in the assembler
    err,       \* exception raised by the assembler, or "none"
    result,    \* the uint8 array returned on line 58
    reads,     \* the (c, z, t) coordinates passed to ix_at so far, in order
    undef,     \* TRUE once line 56 divided 0 by 0.0 and cast the NaN to uint8
    dpc,       \* position in the export driver
    cfgIdx,    \* index of the configuration file being processed
    cfgFile,   \* the content of the configuration file being processed
    cfg,       \* the ExportConfig returned by read_config
    chIdx,     \* position in cfg.channels
    fr,        \* the enumerate index over vol_timeseries
    fs,        \* the files under openvdb/: (ch, fr) -> status
    save,      \* the _save_vtk_image_to_disk call in progress
    saved,     \* (ch, fr) pairs the current configuration was saved for
    outcome,   \* per configuration file: "pending", "done", "failed" (by
               \* read_config) or "crashed" (later)
    disk,      \* "ok", or how every write fails since the disk failed
    vmKilled   \* javabridge.kill_vm() has run

asmVars == <<frames, roi, channel, crop, image, img_z, i, j, pc, err, result,
             reads, undef>>
drvVars == <<dpc, cfgIdx, cfgFile, cfg, chIdx, fr, fs, save, saved, outcome,
             disk, vmKilled>>
vars == <<tab, img, asmVars, drvVars>>

(***************************************************************************)
(* Bounds of the model.                                                    *)
(***************************************************************************)
NFrames == 2
NZ == 2
NChannels == 2
Width == 3
Height == 1
NCfgs == 2

(***************************************************************************)
(* IEEE-754 binary64 arithmetic, as used by line 56.                       *)
(*                                                                         *)
(* A positive finite double is [k |-> "num", m |-> <<hi, lo>>, e |-> e]:   *)
(* (hi * 2^26 + lo) * 2^e with a 53-bit significand 2^52 <= hi*2^26+lo <   *)
(* 2^53.  The significand is kept in two limbs because it does not fit     *)
(* 32-bit integers.  Zero, NaN and +inf are the records below.             *)
(***************************************************************************)
Limb == 67108864

FZero == [k |-> "zero", m |-> <<0, 0>>, e |-> 0]
FNaN == [k |-> "nan", m |-> <<0, 0>>, e |-> 0]
FInf == [k |-> "inf", m |-> <<0, 0>>, e |-> 0]

RECURSIVE Pow2(_)
Pow2(n) == IF n <= 0 THEN 1 ELSE 2 * Pow2(n - 1)

\* two-limb naturals below 2^54
LDbl(a) == <<2 * a[1] + (2 * a[2]) \div Limb, (2 * a[2]) % Limb>>
LGeq(a, b) == a[1] > b[1] \/ (a[1] = b[1] /\ a[2] >= b[2])
LSub(a, b) ==
    IF a[2] >= b[2] THEN <<a[1] - b[1], a[2] - b[2]>>
    ELSE <<a[1] - b[1] - 1, a[2] + Limb - b[2]>>
LInc(a) == IF a[2] + 1 = Limb THEN <<a[1] + 1, 0>> ELSE <<a[1], a[2] + 1>>

RECURSIVE LShl(_, _)
LShl(a, n) == IF n = 0 THEN a ELSE LShl(LDbl(a), n - 1)

\* the exact conversion of an integer 1 .. 2^27-1 to a double
RECURSIVE NormShift(_, _)
NormShift(n, s) == IF n >= Limb THEN s ELSE NormShift(2 * n, s + 1)

FromInt(n) ==
    IF n = 0 THEN FZero
    ELSE LET s == NormShift(n, 0)
         IN [k |-> "num", m |-> <<n * Pow2(s), 0>>, e |-> 0 - (s + 26)]

\* one step of binary long division by d: s = <<remainder, quotient>>;
\* DivBits makes n steps (a zero remainder leaves only zero bits)
DivStep(s, d) ==
    LET r2 == LDbl(s[1])
    IN IF LGeq(r2, d) THEN <<LSub(r2, d), LInc(LDbl(s[2]))>>
       ELSE <<r2, LDbl(s[2])>>

RECURSIVE DivBits(_, _, _)
DivBits(s, d, n) ==
    IF n = 0 THEN s
    ELSE IF s[1] = <<0, 0>> THEN <<s[1], LShl(s[2], n)>>
    ELSE DivBits(DivStep(s, d), d, n - 1)

\* x / y rounded to nearest, ties to even
FDiv(x, y) ==
    IF x.k = "nan" \/ y.k = "nan" THEN FNaN
    ELSE IF y.k = "zero" THEN (IF x.k = "zero" THEN FNaN ELSE FInf)
    ELSE IF x.k = "zero" THEN FZero
    ELSE IF x.k = "inf" THEN (IF y.k = "inf" THEN FNaN ELSE FInf)
    ELSE IF y.k = "inf" THEN FZero
    ELSE LET big == LGeq(x.m, y.m)
             r0  == IF big THEN x.m ELSE LDbl(x.m)
             sh  == IF big THEN 52 ELSE 53
             qr  == DivBits(<<LSub(r0, y.m), <<0, 1>>>>, y.m, 52)
             q   == qr[2]
             r2  == LDbl(qr[1])
             up  == IF r2 = y.m THEN q[2] % 2 = 1
                    ELSE LGeq(r2, y.m)
             qq  == IF up THEN LInc(q) ELSE q
         IN IF qq[1] >= 2 * Limb
            THEN [k |-> "num", m |-> <<Limb, 0>>, e |-> x.e - y.e - sh + 1]
            ELSE [k |-> "num", m |-> qq, e |-> x.e - y.e - sh]

Undefined == 0 - 1

\* the C conversion double -> npy_ubyte behind astype(np.uint8): the value
\* truncated toward zero; undefined for NaN, inf and values of 256 or more
TruncToUInt8(x) ==
    IF x.k = "zero" THEN 0
    ELSE IF x.k = "nan" \/ x.k = "inf" THEN Undefined
    ELSE IF x.e <= 0 - 53 THEN 0
    ELSE IF x.e > 0 - 45 THEN Undefined
    ELSE x.m[1] \div Pow2(0 - x.e - 26)

(***************************************************************************)
(* The image source (OMEImageFile): a series of NChannels x NFrames x NZ   *)
(* planes of Height x Width samples.  The sample at (c, z, t, y, x) is     *)
(* c + gp * (y * Width + x) + gz * z + gt * t for a profile (gp, gz, gt).  *)
(***************************************************************************)
SourceProfiles ==
    { [gp |-> 0, gz |-> 0, gt |-> 0],      \* constant volume
      [gp |-> 0, gz |-> 33, gt |-> 0],
      [gp |-> 0, gz |-> 1, gt |-> 1],
      [gp |-> 1, gz |-> 0, gt |-> 0],
      [gp |-> 1, gz |-> 3, gt |-> 7] }

SetMax(S) == CHOOSE m \in S : \A y \in S : y <= m
SetMin(S) == CHOOSE m \in S : \A y \in S : m <= y

Sources ==
    { [n_frames |-> NFrames, n_channels |-> NChannels,
       zstacks |-> [k \in 1..NZ |-> k - 1],
       width |-> Width, height |-> Height, profile |-> p] :
      p \in SourceProfiles }

Pixel(im, c, z, t, y, x) ==
    c + im.profile.gp * (y * im.width + x) + im.profile.gz * z
      + im.profile.gt * t

\* img_struct.image(img_struct.ix_at(c, z, t)).image: rows y, columns x
Plane(im, c, z, t) ==
    [y \in 1..im.height |-> [x \in 1..im.width |->
        Pixel(im, c, z, t, y - 1, x - 1)]]

\* every value image.ptp() can take over these sources
PtpValues ==
    { p.gp * a + p.gz * b + p.gt * c :
        p \in SourceProfiles, a \in 0..(Width * Height - 1),
        b \in 0..(NZ - 1), c \in 0..(NFrames - 1) }

(***************************************************************************)
(* Line 56 for one sample: d = value - min, p = ptp.                       *)
(***************************************************************************)
RescaleU8(d, p) ==
    TruncToUInt8(FDiv(FromInt(d), FDiv(FromInt(p), FromInt(255))))

RescaleTable == [p \in PtpValues |-> [d \in 0..p |-> RescaleU8(d, p)]]

(***************************************************************************)
(* bioformats_to_ndarray_zstack_timeseries (lines 19-58).                  *)
(***************************************************************************)
NoRoi == [present |-> FALSE, left |-> 0, right |-> 0, top |-> 0, bottom |-> 0,
          t_position |-> 0]

Abs(x) == IF x < 0 THEN 0 - x ELSE x
Min2(a, b) == IF a < b THEN a ELSE b
Max2(a, b) == IF a > b THEN a ELSE b

Uninit == 0 - 1
UInt16 == 65536
ToUInt16(v) == v % UInt16

\* lines 26-41: the crop rectangle (the ROI bounds are integers)
CropOf(im, r) ==
    IF r.present
    THEN LET w  == Abs(r.right - r.left)
             h  == Abs(r.top - r.bottom)
             x0 == r.left
             y0 == r.top
         IN [w |-> w, h |-> h, x0 |-> x0, y0 |-> y0, x1 |-> x0 + w,
             y1 |-> y0 + h]
    ELSE [w |-> im.width, h |-> im.height, x0 |-> 0, y0 |-> 0,
          x1 |-> im.width, y1 |-> im.height]

\* np.empty: an array whose content is not initialised
Empty2(h, w) == [y \in 1..h |-> [x \in 1..w |-> Uninit]]
Empty3(nz, h, w) == [k \in 1..nz |-> Empty2(h, w)]
Empty4(nf, nz, h, w) == [f \in 1..nf |-> Empty3(nz, h, w)]

\* plane[y0:y1, x0:x1] with 0 <= y0, x0: the bounds are clipped to the plane
Slice(plane, ph, pw, y0, y1, x0, x1) ==
    LET nr == Max2(0, Min2(y1, ph) - y0)
        nc == Max2(0, Min2(x1, pw) - x0)
    IN [rows |-> nr, cols |-> nc,
        data |-> [r \in 1..nr |-> [c \in 1..nc |-> plane[y0 + r][x0 + c]]]]

\* img_z[j, :, :] = value: numpy broadcasts value to (h, w) or raises
CanBroadcast(sl, h, w) ==
    /\ sl.rows = h \/ sl.rows = 1
    /\ sl.cols = w \/ sl.cols = 1

Broadcast(sl, h, w) ==
    [r \in 1..h |-> [c \in 1..w |->
        ToUInt16(sl.data[IF sl.rows = 1 THEN 1 ELSE r]
                        [IF sl.cols = 1 THEN 1 ELSE c])]]

\* the z coordinate read at position jj of the inner loop
ZAt(im, jj) == im.zstacks[jj + 1]

\* every plane of a frame stored over the first one (what the code does
\* not do)
StoreAtFirstZ(ii, jj) == <<ii + 1, 1>>

\* the position of the volume the plane of loop positions (ii, jj) goes to
StoreAt(ii, jj) == <<ii + 1, jj + 1>>

Samples(a) ==
    { a[f][k][y][x] : f \in DOMAIN a, k \in 1..NZ,
                      y \in 1..crop.h, x \in 1..crop.w }

\* image.min() and image.ptp()
VolumeMin(a) == SetMin(Samples(a))
VolumePtp(a) == SetMax(Samples(a)) - SetMin(Samples(a))

\* lines 26-43
Enter ==
    /\ pc = "called"
    /\ crop' = CropOf(img, roi)
    /\ image' = Empty4(Len(frames), Len(img.zstacks), crop'.h, crop'.w)
    /\ img_z' = Empty3(Len(img.zstacks), crop'.h, crop'.w)
    /\ i' = 0
    /\ j' = 0
    /\ pc' = "loop"
    /\ UNCHANGED <<tab, img, frames, roi, channel, err, result, reads, undef,
                   drvVars>>

\* lines 44-53: one iteration of the inner loop; the last z of a frame
\* also stores img_z into image and allocates the next frame's img_z
ReadPlane ==
    /\ pc = "loop"
    /\ LET t  == frames[i + 1]
           z  == ZAt(img, j)
           sl == Slice(Plane(img, channel, z, t), img.height, img.width,
                       crop.y0, crop.y1, crop.x0, crop.x1)
           at == StoreAt(i, j)
           zs == [img_z EXCEPT ![at[2]] = Broadcast(sl, crop.h, crop.w)]
           lastZ == j + 1 = Len(img.zstacks)
           lastF == i + 1 = Len(frames)
       IN /\ reads' = Append(reads, <<channel, z, t>>)
          /\ IF CanBroadcast(sl, crop.h, crop.w)
             THEN /\ image' = IF lastZ THEN [image EXCEPT ![at[1]] = zs]
                              ELSE image
                  /\ img_z' = IF lastZ /\ ~lastF
                              THEN Empty3(Len(img.zstacks), crop.h, crop.w)
                              ELSE zs
                  /\ i' = IF lastZ THEN i + 1 ELSE i
                  /\ j' = IF lastZ THEN 0 ELSE j + 1
                  /\ pc' = IF lastZ /\ lastF THEN "normalize" ELSE "loop"
                  /\ err' = err
             ELSE /\ pc' = "raised"
                  /\ err' = "ValueError"
                  /\ UNCHANGED <<image, img_z, i, j>>
    /\ UNCHANGED <<tab, img, frames, roi, channel, crop, result, undef,
                   drvVars>>

\* what the cast of a NaN to uint8 can give: C leaves it undefined
NaNCastBytes == {0, 128, 255}

\* line 56 for the whole volume; b is what an undefined cast produced
NormalizeVolume(a, b) ==
    LET lo  == VolumeMin(a)
        ptp == VolumePtp(a)
    IN [f \in DOMAIN a |-> [k \in 1..NZ |-> [y \in 1..crop.h |->
         [x \in 1..crop.w |->
            LET v == tab[ptp][ToUInt16(a[f][k][y][x] - lo)]
            IN IF v = Undefined THEN b ELSE v]]]]

\* lines 56-58
Normalize ==
    /\ pc = "normalize"
    /\ IF Samples(image) = {}
       THEN \* min() of a zero-size array
            /\ pc' = "raised"
            /\ err' = "ValueError"
            /\ UNCHANGED <<result, undef>>
       ELSE /\ \E b \in (IF VolumePtp(image) = 0 THEN NaNCastBytes ELSE {0}) :
                 result' = NormalizeVolume(image, b)
            /\ undef' = (VolumePtp(image) = 0)
            /\ pc' = "returned"
            /\ err' = err
    /\ UNCHANGED <<tab, img, frames, roi, channel, crop, image, img_z, i, j,
                   reads, drvVars>>

(***************************************************************************)
(* Strings of the configuration file and of the output paths are sequences *)
(* of one-character strings.                                               *)
(***************************************************************************)
DigitChars == <<"0", "1", "2", "3", "4", "5", "6", "7", "8", "9">>

RECURSIVE Dec(_)
Dec(n) ==
    IF n < 10 THEN <<DigitChars[n + 1]>>
    ELSE Append(Dec(n \div 10), DigitChars[(n % 10) + 1])

RECURSIVE ZeroPad(_, _)
ZeroPad(str, width) ==
    IF Len(str) >= width THEN str ELSE ZeroPad(<<"0">> \o str, width)

\* f"{n:01d}" and f"{n:03d}"
Fmt01d(n) == ZeroPad(Dec(n), 1)
Fmt03d(n) == ZeroPad(Dec(n), 3)

DigitValue(ch) == CHOOSE d \in 0..9 : DigitChars[d + 1] = ch

\* int(str) for a string of decimal digits
RECURSIVE ParseInt(_)
ParseInt(str) ==
    IF Len(str) = 1 THEN DigitValue(str[1])
    ELSE 10 * ParseInt(SubSeq(str, 1, Len(str) - 1)) + DigitValue(str[Len(str)])

All == <<"a", "l", "l">>

\* line 151 and line 160: the file written for (ch, fr), below cfg_path.parent
ExportFile(ch, f) ==
    <<"openvdb/ch">> \o Fmt01d(ch) \o <<"/vol_ch">> \o Fmt01d(ch)
        \o <<"_fr">> \o Fmt03d(f) \o <<".vdb">>

AllFiles ==
    { ExportFile(c, f) : c \in 0..(NChannels - 1), f \in 0..(NFrames - 1) }

(***************************************************************************)
(* read_config (lines 111-137).                                            *)
(***************************************************************************)
\* the ROI files a configuration file can name: a proper rectangle and an
\* empty one (left = right)
RoiFiles ==
    { [present |-> TRUE, left |-> 1, right |-> Width, top |-> 0,
       bottom |-> Height, t_position |-> 1],
      [present |-> TRUE, left |-> 1, right |-> 1, top |-> 0,
       bottom |-> Height, t_position |-> 0] }

BadCfg == [valid |-> FALSE, frame |-> All, channel |-> All, ROI |-> "none",
           roiFile |-> NoRoi]

\* the configuration files that can be met: malformed (a missing key, a
\* value int() rejects, an image path that does not exist) or well-formed
\* with DATA.frame, DATA.channel and an optional relative or absolute ROI path
CfgFiles ==
    {BadCfg} \cup
    { [valid |-> TRUE, frame |-> f, channel |-> c, ROI |-> r[1],
       roiFile |-> r[2]] :
        f \in {All, Dec(0), Dec(NFrames)},
        c \in {All, Dec(0)},
        r \in {<<"none", NoRoi>>} \cup ({"relative"} \X RoiFiles)
              \cup { <<"absolute", rf>> : rf \in { q \in RoiFiles :
                                                    q.left < q.right } } }

NoCfg == [frames |-> <<>>, channels |-> <<>>, roi |-> NoRoi]

RangeSeq(n) == [k \in 1..n |-> k - 1]

\* lines 120-126: the ROI is loaded inside the branch for a relative path
LoadedRoi(file) == IF file.ROI = "relative" THEN file.roiFile ELSE NoRoi

\* lines 112-137 for a well-formed file
ReadConfigOf(file, im) ==
    LET r == LoadedRoi(file)
    IN [frames |-> IF r.present THEN <<r.t_position>>
                   ELSE IF file.frame = All THEN RangeSeq(im.n_frames)
                   ELSE <<ParseInt(file.frame)>>,
        channels |-> IF file.channel = All THEN RangeSeq(im.n_channels)
                     ELSE <<ParseInt(file.channel)>>,
        roi |-> r]

(***************************************************************************)
(* The export driver (lines 140-162) and _save_vtk_image_to_disk           *)
(* (lines 83-89).                                                          *)
(***************************************************************************)
SeqRange(q) == { q[k] : k \in DOMAIN q }

NoSave == [file |-> <<>>, data |-> <<>>, existed |-> FALSE, failed |-> FALSE]

\* no assembler call is in progress
AsmIdle ==
    /\ frames = <<>>
    /\ roi = NoRoi
    /\ channel = 0
    /\ crop = CropOf(img, NoRoi)
    /\ image = <<>>
    /\ img_z = <<>>
    /\ i = 0
    /\ j = 0
    /\ pc = "idle"
    /\ err = "none"
    /\ result = <<>>
    /\ reads = <<>>
    /\ undef = FALSE

ClearAssembler ==
    /\ frames' = <<>>
    /\ roi' = NoRoi
    /\ channel' = 0
    /\ crop' = CropOf(img, NoRoi)
    /\ image' = <<>>
    /\ img_z' = <<>>
    /\ i' = 0
    /\ j' = 0
    /\ pc' = "idle"
    /\ err' = "none"
    /\ result' = <<>>
    /\ reads' = <<>>
    /\ undef' = FALSE

\* lines 145-147: read_config returns
ReadConfig ==
    /\ dpc = "configs"
    /\ cfgIdx < NCfgs
    /\ \E file \in CfgFiles :
          /\ file.valid
          /\ cfgFile' = file
          /\ cfg' = ReadConfigOf(file, img)
    /\ chIdx' = 0
    /\ saved' = {}
    /\ dpc' = "channels"
    /\ UNCHANGED <<tab, img, asmVars, cfgIdx, fr, fs, save, outcome, disk,
                   vmKilled>>

\* lines 145-147: read_config raises and nothing catches it
ReadConfigFails ==
    /\ dpc = "configs"
    /\ cfgIdx < NCfgs
    /\ cfgFile' = BadCfg
    /\ outcome' = [outcome EXCEPT ![cfgIdx + 1] = "failed"]
    /\ dpc' = "aborted"
    /\ UNCHANGED <<tab, img, asmVars, cfgIdx, cfg, chIdx, fr, fs, save, saved,
                   disk, vmKilled>>

\* the assembler called on the selected frames only (what the code does
\* not do)
SelectedFrames(c, im) == c.frames

\* line 153
SeriesFrames(c, im) == RangeSeq(im.n_frames)

\* lines 149-154: the next channel; the assembler is called
StartChannel ==
    /\ dpc = "channels"
    /\ chIdx < Len(cfg.channels)
    /\ frames' = SeriesFrames(cfg, img)
    /\ roi' = cfg.roi
    /\ channel' = cfg.channels[chIdx + 1]
    /\ pc' = "called"
    /\ reads' = <<>>
    /\ undef' = FALSE
    /\ dpc' = "assembling"
    /\ UNCHANGED <<tab, img, crop, image, img_z, i, j, err, result, cfgIdx,
                   cfgFile, cfg, chIdx, fr, fs, save, saved, outcome, disk,
                   vmKilled>>

\* line 154: the assembler raised and nothing catches it
AssemblerRaised ==
    /\ dpc = "assembling"
    /\ pc = "raised"
    /\ outcome' = [outcome EXCEPT ![cfgIdx + 1] = "crashed"]
    /\ dpc' = "aborted"
    /\ UNCHANGED <<tab, img, asmVars, cfgIdx, cfgFile, cfg, chIdx, fr, fs,
                   save, saved, disk, vmKilled>>

\* line 156: the loop over the volumes of the returned series starts
StartFrames ==
    /\ dpc = "assembling"
    /\ pc = "returned"
    /\ fr' = 0
    /\ dpc' = "frames"
    /\ UNCHANGED <<tab, img, asmVars, cfgIdx, cfgFile, cfg, chIdx, fs, save,
                   saved, outcome, disk, vmKilled>>

\* lines 157-158
SkipFrame ==
    /\ dpc = "frames"
    /\ fr < Len(result)
    /\ fr \notin SeqRange(cfg.frames)
    /\ fr' = fr + 1
    /\ UNCHANGED <<tab, img, asmVars, dpc, cfgIdx, cfgFile, cfg, chIdx, fs,
                   save, saved, outcome, disk, vmKilled>>

\* the files after _save_vtk_image_to_disk(vtkim, file) with the given
\* outcome: lines 86-87 delete an existing file, lines 88-89 write the new
\* one in place
AfterSave(files, file, how) ==
    CASE how = "written"      -> [files EXCEPT ![file] = "complete"]
      [] how = "remove fails" -> files
      [] how = "not created"  -> [files EXCEPT ![file] = "absent"]
      [] how = "truncated"    -> [files EXCEPT ![file] = "partial"]

SaveCall(how) ==
    LET file == ExportFile(channel, fr)
    IN /\ save' = [file |-> file, data |-> result[fr + 1],
                   existed |-> fs[file] # "absent",
                   failed |-> how # "written"]
       /\ fs' = AfterSave(fs, file, how)
       /\ saved' = saved \cup {<<channel, fr>>}

\* lines 159-160: the volume of frame fr is wrapped and saved
SaveFrame ==
    /\ dpc = "frames"
    /\ fr < Len(result)
    /\ fr \in SeqRange(cfg.frames)
    /\ disk = "ok"
    /\ SaveCall("written")
    /\ fr' = fr + 1
    /\ UNCHANGED <<tab, img, asmVars, dpc, cfgIdx, cfgFile, cfg, chIdx,
                   outcome, disk, vmKilled>>

\* line 87: os.remove raises (the existing file cannot be deleted) and
\* nothing catches it
SaveRemoveFails ==
    /\ dpc = "frames"
    /\ fr < Len(result)
    /\ fr \in SeqRange(cfg.frames)
    /\ fs[ExportFile(channel, fr)] # "absent"
    /\ SaveCall("remove fails")
    /\ outcome' = [outcome EXCEPT ![cfgIdx + 1] = "crashed"]
    /\ dpc' = "aborted"
    /\ UNCHANGED <<tab, img, asmVars, cfgIdx, cfgFile, cfg, chIdx, fr,
                   disk, vmKilled>>

\* line 89: the write fails before the file is created (the directory has
\* become unwritable) or part-way, which leaves a truncated file (the disk
\* is full); the VTK writer reports the error without raising, the driver
\* goes on, and every later write fails the same way
SaveWriteFails ==
    /\ dpc = "frames"
    /\ fr < Len(result)
    /\ fr \in SeqRange(cfg.frames)
    /\ \E how \in {"not created", "truncated"} :
          /\ disk \in {"ok", how}
          /\ disk' = how
          /\ SaveCall(how)
    /\ fr' = fr + 1
    /\ UNCHANGED <<tab, img, asmVars, dpc, cfgIdx, cfgFile, cfg, chIdx,
                   outcome, vmKilled>>

\* line 156 is exhausted: back to line 149; the locals of the finished
\* call are dead and are cleared
NextChannel ==
    /\ dpc = "frames"
    /\ fr = Len(result)
    /\ chIdx' = chIdx + 1
    /\ fr' = 0
    /\ dpc' = "channels"
    /\ ClearAssembler
    /\ UNCHANGED <<tab, img, cfgIdx, cfgFile, cfg, fs, save, saved, outcome,
                   disk, vmKilled>>

\* line 149 is exhausted: back to line 145; cfg and the record of the last
\* save are dead and are cleared
NextConfig ==
    /\ dpc = "channels"
    /\ chIdx = Len(cfg.channels)
    /\ outcome' = [outcome EXCEPT ![cfgIdx + 1] = "done"]
    /\ cfgIdx' = cfgIdx + 1
    /\ cfgFile' = BadCfg
    /\ cfg' = NoCfg
    /\ chIdx' = 0
    /\ save' = NoSave
    /\ saved' = {}
    /\ dpc' = "configs"
    /\ UNCHANGED <<tab, img, asmVars, fr, fs, disk, vmKilled>>

\* line 162
KillVM ==
    /\ dpc = "configs"
    /\ cfgIdx = NCfgs
    /\ vmKilled' = TRUE
    /\ dpc' = "done"
    /\ UNCHANGED <<tab, img, asmVars, cfgIdx, cfgFile, cfg, chIdx, fr, fs,
                   save, saved, outcome, disk>>

\* the series the driver is run on: the samples change from frame to frame
DriverSources == { im \in Sources : im.profile.gt > 0 }

Init ==
    /\ tab = RescaleTable
    /\ img \in DriverSources
    /\ AsmIdle
    /\ dpc = "configs"
    /\ cfgIdx = 0
    /\ cfgFile = BadCfg
    /\ cfg = NoCfg
    /\ chIdx = 0
    /\ fr = 0
    /\ fs = [f \in AllFiles |-> "absent"]
    /\ save = NoSave
    /\ saved = {}
    /\ outcome = [k \in 1..NCfgs |-> "pending"]
    /\ disk = "ok"
    /\ vmKilled = FALSE

Next ==
    \/ ReadConfig \/ ReadConfigFails \/ StartChannel \/ Enter \/ ReadPlane
    \/ Normalize \/ AssemblerRaised \/ StartFrames \/ SkipFrame \/ SaveFrame
    \/ SaveRemoveFails \/ SaveWriteFails \/ NextChannel \/ NextConfig
    \/ KillVM

Spec == Init /\ [][Next]_vars

(***************************************************************************)
(* The assembler called on its own, on every input of the bounded sets.    *)
(***************************************************************************)
\* the non-empty strictly increasing sequences of frame indices
FrameLists ==
    { s \in UNION { [1..n -> 0..(NFrames - 1)] : n \in 1..NFrames } :
        \A a \in 1..Len(s), b \in 1..Len(s) : a < b => s[a] < s[b] }

Rois ==
    { [present |-> TRUE, left |-> l, right |-> r, top |-> t, bottom |-> b,
       t_position |-> 0] :
      l \in 0..Width, r \in 0..Width, t \in 0..Height, b \in 0..Height }

DriverIdle ==
    /\ dpc = "idle"
    /\ cfgIdx = 0
    /\ cfgFile = BadCfg
    /\ cfg = NoCfg
    /\ chIdx = 0
    /\ fr = 0
    /\ fs = <<>>
    /\ save = NoSave
    /\ saved = {}
    /\ outcome = <<>>
    /\ disk = "ok"
    /\ vmKilled = FALSE

InitAsm ==
    /\ tab = RescaleTable
    /\ img \in Sources
    /\ frames \in FrameLists
    /\ roi \in {NoRoi} \cup Rois
    /\ channel \in 0..(NChannels - 1)
    /\ crop = CropOf(img, NoRoi)
    /\ image = <<>>
    /\ img_z = <<>>
    /\ i = 0
    /\ j = 0
    /\ pc = "called"
    /\ err = "none"
    /\ result = <<>>
    /\ reads = <<>>
    /\ undef = FALSE
    /\ DriverIdle

NextAsm == Enter \/ ReadPlane \/ Normalize

SpecAsm == InitAsm /\ [][NextAsm]_vars

(***************************************************************************)
(* Properties of the assembler.                                            *)
(***************************************************************************)
Positions ==
    { <<f, k, y, x>> : f \in 1..Len(frames), k \in 1..Len(img.zstacks),
                       y \in 1..crop.h, x \in 1..crop.w }

At(a, q) == a[q[1]][q[2]][q[3]][q[4]]

NonEmpty == Positions # {}
Lo == VolumeMin(image)
Range == VolumePtp(image)

\* C1: for every assembled volume whose samples are not all equal, every
\* element of the returned array is in 0..255, its minimum is 0 and its
\* maximum is 255.
C1_FullRange ==
    (pc = "returned" /\ Range > 0) =>
        /\ \A q \in Positions : At(result, q) \in 0..255
        /\ SetMin(Samples(result)) = 0
        /\ SetMax(Samples(result)) = 255

\* C3: for every assembled volume with non-zero range, each
\* output element is (value - lo) / (range / 255.0) rounded to the nearest
\* integer (a tie may go either way).
C3_RoundedQuotient ==
    (pc = "returned" /\ Range > 0) =>
        \A q \in Positions :
            2 * Abs(255 * (At(image, q) - Lo) - At(result, q) * Range) <= Range

\* what line 56 computes instead: the quotient 255 * (value - lo) / range
\* truncated toward zero, out <= quotient <= out + 1, where the double
\* quotient can fall just below a whole number
TruncatedQuotient ==
    (pc = "returned" /\ Range > 0) =>
        \A q \in Positions :
            /\ At(result, q) * Range <= 255 * (At(image, q) - Lo)
            /\ 255 * (At(image, q) - Lo) <= (At(result, q) + 1) * Range

\* C4: when every sample of the assembled volume has the same value, the
\* call divides nothing by zero and returns a defined output: no NaN is
\* produced or cast, and the output is all zeros.
C4_DegenerateVolumeDefined ==
    (pc = "returned" /\ Range = 0) =>
        /\ ~undef
        /\ \A q \in Positions : At(result, q) = 0

RoiInFrame ==
    /\ roi.present
    /\ roi.left \in 0..img.width /\ roi.right \in 0..img.width
    /\ roi.top \in 0..img.height /\ roi.bottom \in 0..img.height

\* the assembled volume has the ROI's shape and holds the source planes
\* cropped to rows [top, top + height) and columns [left, left + width)
CroppedToRoi ==
    /\ pc # "raised"
    /\ pc \in {"normalize", "returned"} =>
          /\ Len(image) = Len(frames)
          /\ \A f \in 1..Len(image) :
                /\ Len(image[f]) = Len(img.zstacks)
                /\ \A k \in 1..Len(image[f]) :
                      /\ Len(image[f][k]) = Abs(roi.top - roi.bottom)
                      /\ \A y \in 1..Len(image[f][k]) :
                            /\ Len(image[f][k][y]) = Abs(roi.right - roi.left)
                            /\ \A x \in 1..Len(image[f][k][y]) :
                                  /\ roi.top + y <= img.height
                                  /\ roi.left + x <= img.width
                                  /\ image[f][k][y][x] =
                                        Pixel(img, channel, img.zstacks[k],
                                              frames[f], roi.top + y - 1,
                                              roi.left + x - 1)
    /\ pc = "returned" =>
          /\ Len(result) = Len(frames)
          /\ \A f \in 1..Len(result) :
                /\ Len(result[f]) = Len(img.zstacks)
                /\ \A k \in 1..Len(result[f]) :
                      /\ Len(result[f][k]) = Abs(roi.top - roi.bottom)
                      /\ \A y \in 1..Len(result[f][k]) :
                            Len(result[f][k][y]) = Abs(roi.right - roi.left)

\* C5: for every ROI inside the frame with positive width and
\* height, in either order of left vs right and top vs bottom, the call
\* completes with the ROI-shaped volume of cropped planes.
C5_RoiEitherOrder ==
    (RoiInFrame /\ roi.left # roi.right /\ roi.top # roi.bottom)
        => CroppedToRoi

\* what lines 26-53 guarantee instead: the crop is right when the rectangle
\* [left, left + width) x [top, top + height) lies inside the frame
CropInsideFrame ==
    (/\ RoiInFrame /\ roi.left # roi.right /\ roi.top # roi.bottom
     /\ roi.left + Abs(roi.right - roi.left) <= img.width
     /\ roi.top + Abs(roi.top - roi.bottom) <= img.height)
        => CroppedToRoi

\* the reads the two loops make: frames in the given order, z fastest
ExpectedReads ==
    [n \in 1..(Len(frames) * Len(img.zstacks)) |->
        <<channel,
          img.zstacks[((n - 1) % Len(img.zstacks)) + 1],
          frames[((n - 1) \div Len(img.zstacks)) + 1]>>]

\* C10: during one call every (frame, z) combination is read exactly once,
\* z varying fastest within a frame; the plane read for the i-th frame and
\* j-th z-slice is stored at (i, j, :, :); and every position of the volume
\* has been written when normalisation starts.
C10_ReadOrder ==
    /\ pc = "loop" =>
          reads = SubSeq(ExpectedReads, 1, i * Len(img.zstacks) + j)
    /\ pc \in {"normalize", "returned"} =>
          /\ reads = ExpectedReads
          /\ \A a \in 1..Len(reads), b \in 1..Len(reads) :
                reads[a] = reads[b] => a = b
          /\ \A q \in Positions : At(image, q) # Uninit
          /\ ~roi.present =>
                \A q \in Positions :
                    At(image, q) = Pixel(img, channel, img.zstacks[q[2]],
                                         frames[q[1]], q[3] - 1, q[4] - 1)

\* normalisation is about to start on a volume of several frames
C10_Witness ==
    /\ pc = "normalize"
    /\ Len(frames) > 1
    /\ Len(reads) = Len(frames) * Len(img.zstacks)
    /\ NonEmpty


(***************************************************************************)
(* Properties of the export driver.                                        *)
(***************************************************************************)
\* the source samples of the channel being exported inside the crop
\* rectangle, over every frame and every z-slice of the series
SeriesSamples ==
    { Pixel(img, channel, z, t, y, x) :
        t \in 0..(img.n_frames - 1), z \in SeqRange(img.zstacks),
        y \in crop.y0..(crop.y1 - 1), x \in crop.x0..(crop.x1 - 1) }

\* the source samples of one frame inside the crop rectangle
FrameSamples(t) ==
    { Pixel(img, channel, z, t, y, x) :
        z \in SeqRange(img.zstacks),
        y \in crop.y0..(crop.y1 - 1), x \in crop.x0..(crop.x1 - 1) }

\* the last iteration of the loop of line 156 saved frame fr - 1
JustSaved ==
    /\ dpc = "frames"
    /\ fr > 0
    /\ save.file = ExportFile(channel, fr - 1)

\* C2: normalization uses one minimum and one range over all frames and all
\* z-slices of the channel: in the returned volume two samples of equal
\* source intensity have equal output values whatever their frame or
\* z-slice, and the volume the driver hands to the writer for a selected
\* frame is the frame's samples rescaled with the minimum and the range of
\* the whole series.
C2_WholeSeriesNormalization ==
    /\ pc = "returned" =>
          LET pairs == { <<At(image, q), At(result, q)>> : q \in Positions }
          IN \A a \in pairs, b \in pairs : a[1] = b[1] => a[2] = b[2]
    /\ JustSaved =>
          LET lo == SetMin(SeriesSamples)
              ptp == SetMax(SeriesSamples) - lo
          IN /\ Len(save.data) = Len(img.zstacks)
             /\ \A k \in 1..Len(save.data) :
                   \A y \in 1..crop.h, x \in 1..crop.w :
                       save.data[k][y][x] =
                           tab[ptp][Pixel(img, channel, img.zstacks[k],
                                          fr - 1, crop.y0 + y - 1,
                                          crop.x0 + x - 1) - lo]

\* a single selected frame was saved whose own minimum or range differs
\* from the minimum or range of the whole series
C2_Witness ==
    /\ JustSaved
    /\ ~save.failed
    /\ Len(cfg.frames) = 1
    /\ \/ SetMin(FrameSamples(fr - 1)) # SetMin(SeriesSamples)
       \/ SetMax(FrameSamples(fr - 1)) # SetMax(SeriesSamples)

\* C6: the write of _save_vtk_image_to_disk is all-or-nothing: when it
\* fails, no partial file is left at the destination path, and a file that
\* was there before the call is still there.
C6_AllOrNothing ==
    (save.file # <<>> /\ save.failed) =>
        /\ fs[save.file] # "partial"
        /\ save.existed => fs[save.file] # "absent"

\* C7: when reading configuration file k fails, the files after it are
\* still processed: the run never ends with file k failed and file k + 1
\* untouched.
C7_BatchContinues ==
    \A k \in 1..(NCfgs - 1) :
        (dpc \in {"aborted", "done"} /\ outcome[k] = "failed")
            => outcome[k + 1] # "pending"

\* C8: whenever the configuration names a ROI, by a relative or an absolute
\* path, read_config returns that ROI and the frame selection is the ROI's
\* time position.
C8_RoiLoaded ==
    (dpc = "channels" /\ cfgFile.valid /\ cfgFile.ROI # "none") =>
        /\ cfg.roi = cfgFile.roiFile
        /\ cfg.frames = <<cfgFile.roiFile.t_position>>

\* the (channel, frame) pairs a configuration selects
SelectedPairs == SeqRange(cfg.channels) \X SeqRange(cfg.frames)

\* C9: when the driver has finished a configuration, it has written one
\* file for each selected (channel, frame) pair and no other, distinct
\* pairs have distinct paths, and a configuration that selects a frame
\* outside the series does not finish as if nothing were wrong.
C9_OneFilePerPair ==
    (dpc = "channels" /\ cfgFile.valid /\ chIdx = Len(cfg.channels)) =>
        /\ saved = SelectedPairs
        /\ \A a \in SelectedPairs, b \in SelectedPairs :
              ExportFile(a[1], a[2]) = ExportFile(b[1], b[2]) => a = b
        /\ \A f \in SeqRange(cfg.frames) : f < img.n_frames

=============================================================================
